---- MODULE Spec2Model ----
(***************************************************************************)
(* Mergington High School activities API (src/src/app.py).                 *)
(*                                                                         *)
(* The store is the database behind SessionLocal: a table of activities    *)
(* and a table of signups, both kept in primary-key order.  Every signup    *)
(* row carries the integer id the database gave it; the order in which     *)
(* the rows of a relationship are loaded is the database's choice.         *)
(* The three request handlers get_activities, signup_for_activity and      *)
(* unregister_from_activity are operators on the store; one action per     *)
(* handler applies the operator to the current store (Spec).               *)
(* SpecConcurrent runs the same handlers for concurrent callers, one       *)
(* storage call per step, and SpecTwoActivities does so for requests that  *)
(* name two stored activities; SpecAnyCapacity serves requests on stores   *)
(* whose Math Club has no capacity, capacity 0 or a small capacity.        *)
(***************************************************************************)
EXTENDS Integers, Sequences, FiniteSets, TLC

VARIABLES
    store,      \* [activities: Seq(Activity row), signups: Seq(Signup row)]
    pre,        \* the store as it was when the last request arrived
    request,    \* the last request: [op, activity_name, email]
    response,   \* its outcome: [status, body]
    prev,       \* the request before it, kept when it succeeded: a signup
                \* with the store it found, an unregister with whether its
                \* activity had exactly max_participants signups (NoPrev
                \* otherwise)
    callers     \* concurrent callers: for each, the position of its request
                \* in the handler, the handler's locals and its session

vars == <<store, pre, request, response, prev, callers>>

----------------------------------------------------------------------------
(* Python values *)

\* NULL of the nullable integer column max_participants (no stored capacity
\* is negative).
None == -1

\* The result of Query.first() when no row matches.
NoRow == [none |-> TRUE]

\* Variant: only None counts as "no capacity"; 0 is a capacity of zero.
Truthy_NoneOnly(v) == v # None

\* Python truthiness of an integer-or-None value: None and 0 are falsy.
Truthy(v) == v # None /\ v # 0

----------------------------------------------------------------------------
(* Seed data *)

INITIAL_ACTIVITIES == <<
    [name |-> "Chess Club",
     description |-> "Learn strategies and compete in chess tournaments",
     schedule |-> "Fridays, 3:30 PM - 5:00 PM",
     max_participants |-> 12,
     participants |-> <<"michael@mergington.edu", "daniel@mergington.edu">>],
    [name |-> "Programming Class",
     description |-> "Learn programming fundamentals and build software projects",
     schedule |-> "Tuesdays and Thursdays, 3:30 PM - 4:30 PM",
     max_participants |-> 20,
     participants |-> <<"emma@mergington.edu", "sophia@mergington.edu">>],
    [name |-> "Gym Class",
     description |-> "Physical education and sports activities",
     schedule |-> "Mondays, Wednesdays, Fridays, 2:00 PM - 3:00 PM",
     max_participants |-> 30,
     participants |-> <<"john@mergington.edu", "olivia@mergington.edu">>],
    [name |-> "Soccer Team",
     description |-> "Join the school soccer team and compete in matches",
     schedule |-> "Tuesdays and Thursdays, 4:00 PM - 5:30 PM",
     max_participants |-> 22,
     participants |-> <<"liam@mergington.edu", "noah@mergington.edu">>],
    [name |-> "Basketball Team",
     description |-> "Practice and play basketball with the school team",
     schedule |-> "Wednesdays and Fridays, 3:30 PM - 5:00 PM",
     max_participants |-> 15,
     participants |-> <<"ava@mergington.edu", "mia@mergington.edu">>],
    [name |-> "Art Club",
     description |-> "Explore your creativity through painting and drawing",
     schedule |-> "Thursdays, 3:30 PM - 5:00 PM",
     max_participants |-> 15,
     participants |-> <<"amelia@mergington.edu", "harper@mergington.edu">>],
    [name |-> "Drama Club",
     description |-> "Act, direct, and produce plays and performances",
     schedule |-> "Mondays and Wednesdays, 4:00 PM - 5:30 PM",
     max_participants |-> 20,
     participants |-> <<"ella@mergington.edu", "scarlett@mergington.edu">>],
    [name |-> "Math Club",
     description |-> "Solve challenging problems and participate in math competitions",
     schedule |-> "Tuesdays, 3:30 PM - 4:30 PM",
     max_participants |-> 10,
     participants |-> <<"james@mergington.edu", "benjamin@mergington.edu">>],
    [name |-> "Debate Team",
     description |-> "Develop public speaking and argumentation skills",
     schedule |-> "Fridays, 4:00 PM - 5:30 PM",
     max_participants |-> 12,
     participants |-> <<"charlotte@mergington.edu", "henry@mergington.edu">>]
>>

----------------------------------------------------------------------------
(* The store: tables and queries *)

\* init_db(): the schema with no rows.
EmptyStore == [activities |-> <<>>, signups |-> <<>>]

\* Query.first(): the first row of a result, or no row.
first(rows) == IF rows = <<>> THEN NoRow ELSE Head(rows)

\* session.query(Activity).filter(Activity.name == activity_name)
ActivityByName(st, activity_name) ==
    LET Test(a) == a.name = activity_name
    IN  SelectSeq(st.activities, Test)

\* session.query(Signup).filter(Signup.activity_id == activity_id,
\*                              Signup.email == email)
SignupByPair(st, activity_id, email) ==
    LET Test(s) == s.activity_id = activity_id /\ s.email = email
    IN  SelectSeq(st.signups, Test)

\* session.query(Signup).filter(Signup.activity_id == activity_id)
SignupsOf(st, activity_id) ==
    LET Test(s) == s.activity_id = activity_id
    IN  SelectSeq(st.signups, Test)

\* Query.count()
count(rows) == Len(rows)

\* The unique constraint on (activity_id, email): no pair is in two rows.
UniquePairs(rows) ==
    \A i, j \in DOMAIN rows :
        i # j => \/ rows[i].activity_id # rows[j].activity_id
                 \/ rows[i].email # rows[j].email

\* The id the database gives the next signup row: one more than the largest
\* id in the table (an integer primary key that is not AUTOINCREMENT), so the
\* id of a deleted last row is given out again.
NextSignupId(st) ==
    IF st.signups = <<>> THEN 1
    ELSE st.signups[Len(st.signups)].id + 1

\* session.add(Signup(...)); session.commit(): the row gets its id and is
\* appended to the table.  The table carries a unique constraint on
\* (activity_id, email): inserting a stored pair raises IntegrityError and
\* stores nothing.
InsertSignup(st, row) ==
    IF SignupByPair(st, row.activity_id, row.email) # <<>>
    THEN [ok |-> FALSE, store |-> st]
    ELSE [ok |-> TRUE,
          store |-> [st EXCEPT !.signups =
                        Append(st.signups,
                               [id |-> NextSignupId(st),
                                activity_id |-> row.activity_id,
                                email |-> row.email])]]

\* Variant: every signup of the student is removed, whatever the activity.
DeleteSignup_ByEmail(st, existing) ==
    LET Test(s) == s.email # existing.email
    IN  [st EXCEPT !.signups = SelectSeq(st.signups, Test)]

\* session.delete(existing); session.commit(): DELETE FROM signups WHERE
\* id = existing.id.  The row that now carries the primary key of the fetched
\* object is removed, whatever it holds; no row is removed when none does.
DeleteSignup(st, existing) ==
    LET Test(s) == s.id # existing.id
    IN  [st EXCEPT !.signups = SelectSeq(st.signups, Test)]

----------------------------------------------------------------------------
(* Module-level seed block *)

\* Variant: the flush is missing, so every signup is attached to the id of
\* the first activity.
SeedOne_NoFlush(st, a) ==
    LET act == [id |-> Len(st.activities) + 1,
                name |-> a.name,
                description |-> a.description,
                schedule |-> a.schedule,
                max_participants |-> a.max_participants]
        rows == [j \in 1..Len(a.participants) |->
                    [id |-> NextSignupId(st) + j - 1,
                     activity_id |-> 1,
                     email |-> a.participants[j]]]
    IN  IF UniquePairs(st.signups \o rows)
        THEN [ok |-> TRUE,
              store |-> [activities |-> Append(st.activities, act),
                         signups |-> st.signups \o rows]]
        ELSE [ok |-> FALSE, store |-> st]

\* One iteration of `for a in INITIAL_ACTIVITIES`: add the activity, flush
\* (which assigns its id), add one signup per listed participant; the
\* signups get their ids in the order they were added.  A participant
\* listed twice violates the unique constraint: IntegrityError.
SeedOne(st, a) ==
    LET act == [id |-> Len(st.activities) + 1,
                name |-> a.name,
                description |-> a.description,
                schedule |-> a.schedule,
                max_participants |-> a.max_participants]
        rows == [j \in 1..Len(a.participants) |->
                    [id |-> NextSignupId(st) + j - 1,
                     activity_id |-> act.id,
                     email |-> a.participants[j]]]
    IN  IF UniquePairs(st.signups \o rows)
        THEN [ok |-> TRUE,
              store |-> [activities |-> Append(st.activities, act),
                         signups |-> st.signups \o rows]]
        ELSE [ok |-> FALSE, store |-> st]

\* The loop from its i-th iteration on; it stops at the first IntegrityError.
RECURSIVE SeedFrom(_, _)
SeedFrom(st, i) ==
    IF i > Len(INITIAL_ACTIVITIES) THEN [ok |-> TRUE, store |-> st]
    ELSE LET r == SeedOne(st, INITIAL_ACTIVITIES[i])
         IN  IF r.ok THEN SeedFrom(r.store, i + 1) ELSE r

\* Variant: the seed data is inserted on every import.
seed_block_Unconditional(st) ==
    LET r == SeedFrom(st, 1)
    IN  IF r.ok THEN r.store ELSE st

\* The seed block: it populates the store only when it holds no activity.
\* Everything is committed at once at the end (line 111): when the loop
\* raised, the block is left without a commit and nothing is stored.
seed_block(st) ==
    IF count(st.activities) = 0
    THEN LET r == SeedFrom(st, 1)
         IN  IF r.ok THEN r.store ELSE st
    ELSE st

----------------------------------------------------------------------------
(* Request handlers: each maps (store, inputs) to (store, response) *)

HTTPException(status_code, detail) ==
    [status |-> status_code, body |-> [detail |-> detail]]

Returned(body) == [status |-> 200, body |-> body]

\* An exception the handler does not catch (IntegrityError on commit).
Unhandled == [status |-> 500, body |-> [detail |-> "Internal Server Error"]]

\* No query of the handlers has an ORDER BY, so the rows of a.signups come
\* in the order of the scan the database picks: the table in id order, or
\* the index of the unique constraint on (activity_id, email), which within
\* one activity is the order of the emails.
Scans == {"rowid", "index"}

\* The emails of the seed data and of the requests in the order of their
\* bytes (the order of a TEXT column in an index).
Collation ==
    <<"amelia@mergington.edu", "ava@mergington.edu",
      "benjamin@mergington.edu", "charlotte@mergington.edu",
      "daniel@mergington.edu">>
    \o [i \in 1..9 |-> "earlier" \o ToString(i) \o "@mergington.edu"]
    \o <<"ella@mergington.edu", "emma@mergington.edu",
         "harper@mergington.edu", "henry@mergington.edu",
         "james@mergington.edu", "john@mergington.edu",
         "liam@mergington.edu", "mia@mergington.edu",
         "michael@mergington.edu", "noah@mergington.edu",
         "olivia@mergington.edu", "scarlett@mergington.edu",
         "sophia@mergington.edu">>
    \o [i \in 1..9 |-> "student" \o ToString(i) \o "@mergington.edu"]

\* The rows in the order of their emails.
ByEmail(rows) ==
    LET Among(e) == \E j \in DOMAIN rows : rows[j].email = e
        emails == SelectSeq(Collation, Among)
    IN  [k \in 1..Len(emails) |->
            rows[CHOOSE j \in DOMAIN rows : rows[j].email = emails[k]]]

\* a.signups: the Signup rows that reference activity a, as the scan
\* returns them.
signups(st, a, scan) ==
    IF scan = "rowid" THEN SignupsOf(st, a.id)
    ELSE ByEmail(SignupsOf(st, a.id))

\* Variant: the participants are taken from the whole signups table.
ActivityEntry_AllSignups(st, a, scan) ==
    [description |-> a.description,
     schedule |-> a.schedule,
     max_participants |-> a.max_participants,
     participants |-> [j \in 1..Len(st.signups) |-> st.signups[j].email]]

\* The value stored under result[a.name].
ActivityEntry(st, a, scan) ==
    [description |-> a.description,
     schedule |-> a.schedule,
     max_participants |-> a.max_participants,
     participants |->
         [j \in 1..Len(signups(st, a, scan)) |->
             signups(st, a, scan)[j].email]]

\* GET /activities
get_activities(st, scan) ==
    LET acts == st.activities
        names == {acts[i].name : i \in 1..Len(acts)}
        \* result[a.name] = ...: a later activity of the same name overwrites
        LastNamed(n) ==
            acts[CHOOSE i \in 1..Len(acts) :
                    /\ acts[i].name = n
                    /\ \A k \in (i + 1)..Len(acts) : acts[k].name # n]
    IN  [store |-> st,
         response |->
             Returned([n \in names |->
                          ActivityEntry(st, LastNamed(n), scan)])]

\* Variant: an activity with exactly max_participants signups still accepts.
IsFull_OffByOne(activity, cnt) ==
    Truthy(activity.max_participants) /\ cnt > activity.max_participants

\* Variant: the capacity is never enforced.
IsFull_Unchecked(activity, cnt) == FALSE

\* Variant: the last free place is refused.
IsFull_OneSlotEarly(activity, cnt) ==
    Truthy(activity.max_participants)
    /\ cnt + 1 >= activity.max_participants

\* `activity.max_participants and count >= activity.max_participants`
IsFull(activity, cnt) ==
    Truthy(activity.max_participants) /\ cnt >= activity.max_participants

\* Variant: the already-signed-up check is missing.
signup_for_activity_NoDuplicateCheck(st, activity_name, email) ==
    LET activity == first(ActivityByName(st, activity_name))
    IN  IF activity = NoRow
        THEN [store |-> st,
              response |-> HTTPException(404, "Activity not found")]
        ELSE
        LET cnt == count(SignupsOf(st, activity.id))
        IN  IF IsFull(activity, cnt)
            THEN [store |-> st,
                  response |-> HTTPException(400, "Activity is full")]
            ELSE
            LET ins == InsertSignup(st, [activity_id |-> activity.id,
                                         email |-> email])
            IN  IF ~ins.ok
                THEN [store |-> st, response |-> Unhandled]
                ELSE [store |-> ins.store,
                      response |-> Returned(
                          [message |-> "Signed up " \o email
                                       \o " for " \o activity_name])]

\* Variant: the capacity check comes before the already-signed-up check.
signup_for_activity_CapacityFirst(st, activity_name, email) ==
    LET activity == first(ActivityByName(st, activity_name))
    IN  IF activity = NoRow
        THEN [store |-> st,
              response |-> HTTPException(404, "Activity not found")]
        ELSE
        LET cnt == count(SignupsOf(st, activity.id))
            existing == first(SignupByPair(st, activity.id, email))
        IN  IF IsFull(activity, cnt)
            THEN [store |-> st,
                  response |-> HTTPException(400, "Activity is full")]
            ELSE IF existing # NoRow
            THEN [store |-> st,
                  response |->
                      HTTPException(400, "Student is already signed up")]
            ELSE
            LET ins == InsertSignup(st, [activity_id |-> activity.id,
                                         email |-> email])
            IN  IF ~ins.ok
                THEN [store |-> st, response |-> Unhandled]
                ELSE [store |-> ins.store,
                      response |-> Returned(
                          [message |-> "Signed up " \o email
                                       \o " for " \o activity_name])]

\* POST /activities/{activity_name}/signup
signup_for_activity(st, activity_name, email) ==
    LET activity == first(ActivityByName(st, activity_name))
    IN  IF activity = NoRow
        THEN [store |-> st,
              response |-> HTTPException(404, "Activity not found")]
        ELSE
        LET existing == first(SignupByPair(st, activity.id, email))
        IN  IF existing # NoRow
            THEN [store |-> st,
                  response |->
                      HTTPException(400, "Student is already signed up")]
            ELSE
            LET cnt == count(SignupsOf(st, activity.id))
            IN  IF IsFull(activity, cnt)
                THEN [store |-> st,
                      response |-> HTTPException(400, "Activity is full")]
                ELSE
                LET ins == InsertSignup(st, [activity_id |-> activity.id,
                                             email |-> email])
                IN  IF ~ins.ok
                    THEN [store |-> st, response |-> Unhandled]
                    ELSE [store |-> ins.store,
                          response |-> Returned(
                              [message |-> "Signed up " \o email
                                           \o " for " \o activity_name])]

\* Variant: an unknown activity is reported like a missing signup.
unregister_from_activity_NoNotFound(st, activity_name, email) ==
    LET activity == first(ActivityByName(st, activity_name))
        existing == IF activity = NoRow THEN NoRow
                    ELSE first(SignupByPair(st, activity.id, email))
    IN  IF existing = NoRow
        THEN [store |-> st,
              response |-> HTTPException(
                  400, "Student is not signed up for this activity")]
        ELSE [store |-> DeleteSignup(st, existing),
              response |-> Returned(
                  [message |-> "Unregistered " \o email
                               \o " from " \o activity_name])]

\* Variant: unregistering a student who is not signed up reports success.
unregister_from_activity_Idempotent(st, activity_name, email) ==
    LET activity == first(ActivityByName(st, activity_name))
    IN  IF activity = NoRow
        THEN [store |-> st,
              response |-> HTTPException(404, "Activity not found")]
        ELSE
        LET existing == first(SignupByPair(st, activity.id, email))
        IN  [store |-> IF existing = NoRow THEN st
                       ELSE DeleteSignup(st, existing),
             response |-> Returned(
                 [message |-> "Unregistered " \o email
                              \o " from " \o activity_name])]

\* Variant: unregister applies the capacity check of signup.
unregister_from_activity_ChecksCapacity(st, activity_name, email) ==
    LET activity == first(ActivityByName(st, activity_name))
    IN  IF activity = NoRow
        THEN [store |-> st,
              response |-> HTTPException(404, "Activity not found")]
        ELSE
        LET existing == first(SignupByPair(st, activity.id, email))
        IN  IF existing = NoRow
            THEN [store |-> st,
                  response |-> HTTPException(
                      400, "Student is not signed up for this activity")]
            ELSE IF IsFull(activity, count(SignupsOf(st, activity.id)))
            THEN [store |-> st,
                  response |-> HTTPException(400, "Activity is full")]
            ELSE [store |-> DeleteSignup(st, existing),
                  response |-> Returned(
                      [message |-> "Unregistered " \o email
                                   \o " from " \o activity_name])]

\* DELETE /activities/{activity_name}/unregister
unregister_from_activity(st, activity_name, email) ==
    LET activity == first(ActivityByName(st, activity_name))
    IN  IF activity = NoRow
        THEN [store |-> st,
              response |-> HTTPException(404, "Activity not found")]
        ELSE
        LET existing == first(SignupByPair(st, activity.id, email))
        IN  IF existing = NoRow
            THEN [store |-> st,
                  response |-> HTTPException(
                      400, "Student is not signed up for this activity")]
            ELSE [store |-> DeleteSignup(st, existing),
                  response |-> Returned(
                      [message |-> "Unregistered " \o email
                                   \o " from " \o activity_name])]

----------------------------------------------------------------------------
(* Bounds and inputs *)

\* Signups to Math Club that earlier runs of the process may have stored.
MaxEarlierSignups == 8

NewStudent(i) == "student" \o ToString(i) \o "@mergington.edu"

EarlierStudent(i) == "earlier" \o ToString(i) \o "@mergington.edu"

\* What the signup requests carry: Math Club or a name that is not in the
\* store, for a student seeded into Chess Club or one who is not in the seed
\* data.
SignupNames == {"Math Club", "Robotics Club"}
SignupEmails == {"michael@mergington.edu", NewStudent(1)}

\* What the unregister requests carry: two stored activities or the unknown
\* name, for the student seeded into Chess Club or one seeded into Math Club.
\* A stored row takes the id after the largest one, so the ids of two pairs
\* that are both stored and deleted again and again would grow for ever; of
\* the pairs these requests name, only (Math Club, michael) is both signed
\* up and unregistered, and every request is served in every state.
UnregisterNames == {"Math Club", "Chess Club", "Robotics Club"}
UnregisterEmails == {"michael@mergington.edu", "james@mergington.edu"}

\* The store an earlier run leaves behind after k signup requests to Math
\* Club (the database outlives the process; the seed block runs on import).
RECURSIVE EarlierRun(_)
EarlierRun(k) ==
    IF k = 0 THEN seed_block(EmptyStore)
    ELSE signup_for_activity(EarlierRun(k - 1), "Math Club",
                             EarlierStudent(k)).store

\* What the database may hold when the process starts: nothing (first run),
\* the seed data alone, or the seed data with Math Club filled by earlier
\* requests.
PersistedStores ==
    {EmptyStore} \cup {EarlierRun(k) : k \in {0, MaxEarlierSignups}}

----------------------------------------------------------------------------
(* The state machine: requests are served one at a time *)

NoRequest == [op |-> "import", activity_name |-> "", email |-> ""]
NoResponse == [status |-> 0, body |-> [detail |-> ""]]
NoPrev == [none |-> TRUE]

\* The callers that send requests concurrently, and the record of a caller
\* that has no request in the handler.
Callers == {"caller1", "caller2"}

IdleCaller ==
    [pc |-> "idle", op |-> "", activity_name |-> "", email |-> "",
     activity |-> NoRow, existing |-> NoRow, cnt |-> 0,
     acts |-> <<>>, idx |-> 0, result |-> <<>>,
     session |-> "none", pending |-> <<>>, commits |-> 0,
     response |-> NoResponse]

NoCallers == [c \in Callers |-> IdleCaller]

\* The state after the module is imported: init_db() and the seed block
\* have run on whatever the database held (pre).
Init ==
    /\ \E p \in PersistedStores : pre = p /\ store = seed_block(p)
    /\ request = NoRequest
    /\ response = NoResponse
    /\ prev = NoPrev
    /\ callers = NoCallers

\* The activity called name held exactly max_participants signups in st.
HadNoPlaceLeft(st, name) ==
    \E i \in DOMAIN st.activities :
        /\ st.activities[i].name = name
        /\ Cardinality({j \in DOMAIN st.signups :
                           st.signups[j].activity_id = st.activities[i].id})
               = st.activities[i].max_participants

Serve(op, activity_name, email, r) ==
    /\ store' = r.store
    /\ response' = r.response
    /\ pre' = store
    /\ request' = [op |-> op, activity_name |-> activity_name, email |-> email]
    /\ prev' = IF request.op = "signup" /\ response.status = 200
               THEN [request |-> request, pre |-> pre]
               ELSE IF request.op = "unregister" /\ response.status = 200
               THEN [request |-> request,
                     full |-> HadNoPlaceLeft(pre, request.activity_name)]
               ELSE NoPrev
    /\ UNCHANGED callers

\* The process is restarted: the module is imported again and the seed block
\* runs on the store the last run left.
Import ==
    Serve("import", "", "",
          [store |-> seed_block(store), response |-> NoResponse])

GetActivities ==
    \E scan \in Scans : Serve("list", "", "", get_activities(store, scan))

Signup(activity_name, email) ==
    Serve("signup", activity_name, email,
          signup_for_activity(store, activity_name, email))

Unregister(activity_name, email) ==
    Serve("unregister", activity_name, email,
          unregister_from_activity(store, activity_name, email))

Next ==
    \/ Import
    \/ GetActivities
    \/ \E n \in SignupNames, e \in SignupEmails : Signup(n, e)
    \/ \E n \in UnregisterNames, e \in UnregisterEmails : Unregister(n, e)

Spec == Init /\ [][Next]_vars

----------------------------------------------------------------------------
(* The same requests on stores whose Math Club has another capacity *)

\* The largest capacity drawn for Math Club besides "no capacity".
DrawnCapacity == 3

\* The store with the max_participants column of one activity set to m.
WithCapacity(st, name, m) ==
    [st EXCEPT !.activities =
        [i \in DOMAIN st.activities |->
            IF st.activities[i].name = name
            THEN [st.activities[i] EXCEPT !.max_participants = m]
            ELSE st.activities[i]]]

\* Capacities of Math Club: NULL, 0, and its seeded signups plus one up to
\* DrawnCapacity.
DrawnCapacities == {None, 0} \cup (3..DrawnCapacity)

InitAnyCapacity ==
    /\ \E m \in DrawnCapacities :
           store = WithCapacity(seed_block(EmptyStore), "Math Club", m)
    /\ pre = store
    /\ request = NoRequest
    /\ response = NoResponse
    /\ prev = NoPrev
    /\ callers = NoCallers

SpecAnyCapacity == InitAnyCapacity /\ [][Next]_vars

----------------------------------------------------------------------------
(* Concurrent callers: each handler runs one storage call at a time *)

\* Variant: an exception leaves the block without closing the session.
WithExit_LeakOnRaise(cl, resp) ==
    [cl EXCEPT !.pc = "done",
               !.session = IF resp.status = 200 THEN "closed" ELSE @,
               !.pending = IF resp.status = 200 THEN <<>> ELSE @,
               !.activity = NoRow, !.existing = NoRow, !.cnt = 0,
               !.acts = <<>>, !.idx = 0, !.result = <<>>,
               !.response = resp]

\* The `with SessionLocal() as session` block is left, by return or by an
\* exception: the session is closed, what it had not committed is
\* discarded, and the handler's locals are gone.
WithExit(cl, resp) ==
    [cl EXCEPT !.pc = "done",
               !.session = "closed",
               !.pending = <<>>,
               !.activity = NoRow, !.existing = NoRow, !.cnt = 0,
               !.acts = <<>>, !.idx = 0, !.result = <<>>,
               !.response = resp]

\* A request enters its handler and opens a session.
Enter(op, activity_name, email) ==
    [IdleCaller EXCEPT !.pc = IF op = "list" THEN "query_all" ELSE "lookup",
                       !.op = op,
                       !.activity_name = activity_name,
                       !.email = email,
                       !.session = "open"]

\* `activity = ...first()` and `if not activity: raise`
LookupStep(st, cl) ==
    LET activity == first(ActivityByName(st, cl.activity_name))
    IN  IF activity = NoRow
        THEN WithExit(cl, HTTPException(404, "Activity not found"))
        ELSE [cl EXCEPT !.activity = activity, !.pc = "existing"]

\* `existing = ...first()` and the test that follows it in either handler
ExistingStep(st, cl) ==
    LET existing == first(SignupByPair(st, cl.activity.id, cl.email))
    IN  IF cl.op = "signup"
        THEN IF existing # NoRow
             THEN WithExit(cl, HTTPException(
                               400, "Student is already signed up"))
             ELSE [cl EXCEPT !.existing = existing, !.pc = "count"]
        ELSE IF existing = NoRow
             THEN WithExit(cl, HTTPException(
                      400, "Student is not signed up for this activity"))
             ELSE [cl EXCEPT !.existing = existing, !.pc = "delete"]

\* `count = ...count()` and the capacity test
CountStep(st, cl) ==
    LET cnt == count(SignupsOf(st, cl.activity.id))
    IN  IF IsFull(cl.activity, cnt)
        THEN WithExit(cl, HTTPException(400, "Activity is full"))
        ELSE [cl EXCEPT !.cnt = cnt, !.pc = "insert"]

\* session.add(signup); session.commit(); return.  A commit that violates
\* the unique constraint raises out of the handler.
InsertStep(st, cl) ==
    LET row == [activity_id |-> cl.activity.id, email |-> cl.email]
        added == [cl EXCEPT !.pending = <<row>>]
        ins == InsertSignup(st, row)
    IN  IF ins.ok
        THEN [store |-> ins.store,
              caller |-> WithExit(
                  [added EXCEPT !.commits = @ + 1],
                  Returned([message |-> "Signed up " \o cl.email
                                        \o " for " \o cl.activity_name]))]
        ELSE [store |-> st, caller |-> WithExit(added, Unhandled)]

\* session.delete(existing); session.commit(); return
DeleteStep(st, cl) ==
    [store |-> DeleteSignup(st, cl.existing),
     caller |-> WithExit(
         [cl EXCEPT !.commits = @ + 1],
         Returned([message |-> "Unregistered " \o cl.email
                               \o " from " \o cl.activity_name]))]

\* `acts = session.query(Activity).all()`
QueryAllStep(st, cl) ==
    IF st.activities = <<>>
    THEN WithExit(cl, Returned(<<>>))
    ELSE [cl EXCEPT !.acts = st.activities, !.idx = 1, !.pc = "load"]

\* One iteration of `for a in acts`: a.signups is loaded from the store and
\* result[a.name] is set; after the last one the result is returned.
LoadStep(st, cl, scan) ==
    LET a == cl.acts[cl.idx]
        names == DOMAIN cl.result \cup {a.name}
        result == [n \in names |->
                      IF n = a.name THEN ActivityEntry(st, a, scan)
                      ELSE cl.result[n]]
    IN  IF cl.idx = Len(cl.acts)
        THEN WithExit(cl, Returned(result))
        ELSE [cl EXCEPT !.result = result, !.idx = @ + 1]

\* The requests that concurrent callers send.
ConcurrentNames == {"Math Club", "Robotics Club"}
ConcurrentEmails == {NewStudent(1), NewStudent(2)}

\* The seeded store after the earlier signups that leave one place in Math
\* Club (INITIAL_ACTIVITIES[8]).
OnePlaceLeft ==
    EarlierRun(INITIAL_ACTIVITIES[8].max_participants
               - Len(INITIAL_ACTIVITIES[8].participants) - 1)

InitConcurrent ==
    /\ pre = OnePlaceLeft
    /\ store = seed_block(pre)
    /\ request = NoRequest
    /\ response = NoResponse
    /\ prev = NoPrev
    /\ callers = NoCallers

Sequential == <<pre, request, response, prev>>

Step(c, cl) ==
    /\ callers' = [callers EXCEPT ![c] = cl]
    /\ UNCHANGED <<store, Sequential>>

Write(c, r) ==
    /\ callers' = [callers EXCEPT ![c] = r.caller]
    /\ store' = r.store
    /\ UNCHANGED Sequential

Call(c, op, activity_name, email) ==
    /\ callers[c].pc \in {"idle", "done"}
    /\ Step(c, Enter(op, activity_name, email))

Lookup(c) ==
    /\ callers[c].pc = "lookup"
    /\ Step(c, LookupStep(store, callers[c]))

CheckExisting(c) ==
    /\ callers[c].pc = "existing"
    /\ Step(c, ExistingStep(store, callers[c]))

Count(c) ==
    /\ callers[c].pc = "count"
    /\ Step(c, CountStep(store, callers[c]))

Insert(c) ==
    /\ callers[c].pc = "insert"
    /\ Write(c, InsertStep(store, callers[c]))

Delete(c) ==
    /\ callers[c].pc = "delete"
    /\ Write(c, DeleteStep(store, callers[c]))

QueryAll(c) ==
    /\ callers[c].pc = "query_all"
    /\ Step(c, QueryAllStep(store, callers[c]))

Load(c) ==
    /\ callers[c].pc = "load"
    /\ \E scan \in Scans : Step(c, LoadStep(store, callers[c], scan))

NextConcurrent ==
    \/ \E c \in Callers : Call(c, "list", "", "")
    \/ \E c \in Callers, n \in ConcurrentNames, e \in ConcurrentEmails :
           Call(c, "signup", n, e)
    \/ \E c \in Callers, n \in ConcurrentNames, e \in ConcurrentEmails :
           Call(c, "unregister", n, e)
    \/ \E c \in Callers : Lookup(c)
    \/ \E c \in Callers : CheckExisting(c)
    \/ \E c \in Callers : Count(c)
    \/ \E c \in Callers : Insert(c)
    \/ \E c \in Callers : Delete(c)
    \/ \E c \in Callers : QueryAll(c)
    \/ \E c \in Callers : Load(c)

SpecConcurrent == InitConcurrent /\ [][NextConcurrent]_vars

----------------------------------------------------------------------------
(* Concurrent callers whose requests name two stored activities *)

\* One student joins and leaves Math Club, another joins Chess Club.
TwoActivitySignups ==
    {[activity_name |-> "Math Club", email |-> NewStudent(1)],
     [activity_name |-> "Chess Club", email |-> NewStudent(2)]}

TwoActivityUnregisters ==
    {[activity_name |-> "Math Club", email |-> NewStudent(1)]}

NextTwoActivities ==
    \/ \E c \in Callers, r \in TwoActivitySignups :
           Call(c, "signup", r.activity_name, r.email)
    \/ \E c \in Callers, r \in TwoActivityUnregisters :
           Call(c, "unregister", r.activity_name, r.email)
    \/ \E c \in Callers : Lookup(c)
    \/ \E c \in Callers : CheckExisting(c)
    \/ \E c \in Callers : Count(c)
    \/ \E c \in Callers : Insert(c)
    \/ \E c \in Callers : Delete(c)

SpecTwoActivities == InitConcurrent /\ [][NextTwoActivities]_vars

----------------------------------------------------------------------------
(* Vocabulary of the properties, stated on the tables themselves *)

\* The positions of the activities called name.
Named(st, name) ==
    {i \in DOMAIN st.activities : st.activities[i].name = name}

Known(st, name) == Named(st, name) # {}

\* The activity called name (names are unique in the store).
TheActivity(st, name) == st.activities[CHOOSE i \in Named(st, name) : TRUE]

\* The positions of the signups of the activity with this id.
RowsOf(st, id) == {i \in DOMAIN st.signups : st.signups[i].activity_id = id}

NumSignups(st, id) == Cardinality(RowsOf(st, id))

Roster(st, id) == {st.signups[i].email : i \in RowsOf(st, id)}

Enrolled(st, name, email) ==
    Known(st, name) /\ email \in Roster(st, TheActivity(st, name).id)

\* The activity called name has a capacity other than 0 and at least that
\* many signups.
AtPositiveCapacity(st, name) ==
    /\ Known(st, name)
    /\ TheActivity(st, name).max_participants \notin {None, 0}
    /\ NumSignups(st, TheActivity(st, name).id)
           >= TheActivity(st, name).max_participants

\* The activity called name has a capacity and at least that many signups.
AtCapacity(st, name) ==
    /\ Known(st, name)
    /\ TheActivity(st, name).max_participants # None
    /\ NumSignups(st, TheActivity(st, name).id)
           >= TheActivity(st, name).max_participants

Failed(status, detail) ==
    response = [status |-> status, body |-> [detail |-> detail]]

Succeeded == response.status = 200

IsSignup == request.op = "signup"
IsUnregister == request.op = "unregister"
IsList == request.op = "list"

----------------------------------------------------------------------------
(* Properties *)

\* C1: for every activity whose max_participants is set, the number of
\* signups stored for it is at most max_participants, after any sequence of
\* signup and unregister requests served one at a time.
CapacityNeverExceeded ==
    \A i \in DOMAIN store.activities :
        LET a == store.activities[i]
        IN  a.max_participants # None
            => NumSignups(store, a.id) <= a.max_participants

\* A signup has just taken the last free place of Math Club.
LastPlaceTaken ==
    /\ IsSignup /\ Succeeded
    /\ request.activity_name = "Math Club"
    /\ NumSignups(store, TheActivity(store, "Math Club").id)
           = TheActivity(store, "Math Club").max_participants

\* C2: every (activity, email) pair is stored at most once, and a signup
\* request for a stored pair fails with 400 "Student is already signed up"
\* and leaves every roster as it was.
NoDuplicateEnrollment ==
    /\ \A i, j \in DOMAIN store.signups :
           i # j => \/ store.signups[i].activity_id
                          # store.signups[j].activity_id
                    \/ store.signups[i].email # store.signups[j].email
    /\ (IsSignup /\ Enrolled(pre, request.activity_name, request.email))
           => /\ Failed(400, "Student is already signed up")
              /\ store.signups = pre.signups

\* A student who was enrolled has asked to sign up again.
SecondSignupRefused ==
    /\ IsSignup
    /\ Enrolled(pre, request.activity_name, request.email)
    /\ Failed(400, "Student is already signed up")

SignupCheckOrder ==
    IsSignup =>
        /\ ~Known(pre, request.activity_name)
               => Failed(404, "Activity not found")
        /\ (/\ Enrolled(pre, request.activity_name, request.email)
            /\ AtCapacity(pre, request.activity_name))
               => Failed(400, "Student is already signed up")

\* An enrolled student asked again for an activity that was full.
EnrolledAsksFullActivity ==
    /\ IsSignup
    /\ Enrolled(pre, request.activity_name, request.email)
    /\ AtCapacity(pre, request.activity_name)
    /\ response.status = 400

\* C5: a signup or unregister request whose activity name matches no stored
\* activity fails with 404 "Activity not found", for every email, and leaves
\* the store as it was.
UnknownActivityNotFound ==
    ((IsSignup \/ IsUnregister) /\ ~Known(pre, request.activity_name))
        => Failed(404, "Activity not found") /\ store = pre

\* An unregister request named an activity that is not in the store, sent by
\* a student who is enrolled elsewhere.
UnregisterUnknownActivity ==
    /\ IsUnregister
    /\ ~Known(pre, request.activity_name)
    /\ \E n \in UnregisterNames : Enrolled(pre, n, request.email)
    /\ response.status = 404

\* C6: an unregister request for a stored activity by a student who has no
\* signup in it fails with 400 "Student is not signed up for this activity"
\* and leaves the store as it was.
UnregisterNotRegistered ==
    (/\ IsUnregister
     /\ Known(pre, request.activity_name)
     /\ ~Enrolled(pre, request.activity_name, request.email))
        => /\ Failed(400, "Student is not signed up for this activity")
           /\ store = pre

\* A student enrolled in Math Club only asked to leave Chess Club.
UnregisterWithoutSignup ==
    /\ IsUnregister
    /\ request.activity_name = "Chess Club"
    /\ ~Enrolled(pre, "Chess Club", request.email)
    /\ Enrolled(pre, "Math Club", request.email)
    /\ response.status = 400

\* The request served now undoes the successful signup served just before.
UndoesPreviousSignup ==
    /\ prev # NoPrev
    /\ prev.request.op = "signup"
    /\ IsUnregister
    /\ request.activity_name = prev.request.activity_name
    /\ request.email = prev.request.email

\* C7: when signup(A, email) succeeds and unregister(A, email) is the next
\* request, the unregister succeeds, and the signup count and the set of
\* enrolled emails of every activity are what they were before the signup.
SignupUnregisterRoundTrip ==
    UndoesPreviousSignup
        => /\ Succeeded
           /\ store.activities = prev.pre.activities
           /\ \A i \in DOMAIN store.activities :
                  LET id == store.activities[i].id
                  IN  /\ NumSignups(store, id) = NumSignups(prev.pre, id)
                      /\ Roster(store, id) = Roster(prev.pre, id)

\* A student already enrolled in another activity signed up and then left
\* again at once.
RoundTripDone ==
    /\ UndoesPreviousSignup
    /\ \E n \in UnregisterNames :
           n # request.activity_name /\ Enrolled(prev.pre, n, request.email)
    /\ response.status = 200

\* The inputs and the store before the request allow the signup.
SignupAllowed ==
    /\ Known(pre, request.activity_name)
    /\ ~Enrolled(pre, request.activity_name, request.email)
    /\ LET a == TheActivity(pre, request.activity_name)
       IN  \/ a.max_participants = None
           \/ a.max_participants > NumSignups(pre, a.id)

\* The signups table holds exactly one row more than before the request,
\* and that row is (activity, email) of the request.
OneSignupAdded ==
    LET id == TheActivity(pre, request.activity_name).id
    IN  /\ store.activities = pre.activities
        /\ \E k \in DOMAIN store.signups :
               /\ store.signups[k].activity_id = id
               /\ store.signups[k].email = request.email
               /\ pre.signups =
                      SubSeq(store.signups, 1, k - 1)
                      \o SubSeq(store.signups, k + 1, Len(store.signups))
        /\ NumSignups(store, id) = NumSignups(pre, id) + 1

\* The inputs and the store before the request allow the signup, a
\* max_participants of 0 counting as unset.
SignupHasRoom ==
    /\ Known(pre, request.activity_name)
    /\ ~Enrolled(pre, request.activity_name, request.email)
    /\ LET a == TheActivity(pre, request.activity_name)
       IN  \/ a.max_participants \in {None, 0}
           \/ a.max_participants > NumSignups(pre, a.id)

RosterSeq(st, id) ==
    LET Mine(r) == r.activity_id = id
        rows == SelectSeq(st.signups, Mine)
    IN  [j \in 1..Len(rows) |-> rows[j].email]

\* Served one at a time, a signup or unregister request on activity A
\* changes at most the signups of A: those of every other activity, and the
\* activities with their name, description, schedule and max_participants,
\* stay as they were.
OnlyRequestedRosterChanges ==
    (IsSignup \/ IsUnregister)
        => /\ store.activities = pre.activities
           /\ \A i \in DOMAIN pre.activities :
                  LET a == pre.activities[i]
                  IN  a.name # request.activity_name
                      => RosterSeq(store, a.id) = RosterSeq(pre, a.id)

\* C10: listing the activities leaves the store as it was, and its result
\* has one entry per stored activity whose participants are exactly the
\* emails signed up for that activity when the request is served.
ListingIsPureRead ==
    IsList
        => /\ store = pre
           /\ Succeeded
           /\ DOMAIN response.body
                  = {store.activities[i].name : i \in DOMAIN store.activities}
           /\ Cardinality(DOMAIN response.body) = Len(store.activities)
           /\ \A i \in DOMAIN store.activities :
                  LET a == store.activities[i]
                      entry == response.body[a.name]
                  IN  /\ {entry.participants[j] :
                             j \in DOMAIN entry.participants}
                             = Roster(store, a.id)
                      /\ Len(entry.participants) = NumSignups(store, a.id)
                      /\ entry.description = a.description
                      /\ entry.schedule = a.schedule
                      /\ entry.max_participants = a.max_participants

\* A listing shows a new student in Math Club and no longer shows a seeded
\* participant who left it.
ListingReflectsChanges ==
    /\ IsList
    /\ \E j \in DOMAIN response.body["Math Club"].participants :
           response.body["Math Club"].participants[j] = NewStudent(1)
    /\ \A j \in DOMAIN response.body["Math Club"].participants :
           response.body["Math Club"].participants[j]
               # "james@mergington.edu"

IsImport == request.op = "import"

\* C15: seeding is idempotent: on a store that holds at least one activity
\* the seed block changes nothing, so seeding an empty store and seeding
\* again leaves the activities and signups of seeding once.
SeedingIsIdempotent ==
    IsImport
        => /\ Len(pre.activities) > 0 => store = pre
           /\ seed_block(store) = store

\* The process was restarted on a store that requests had changed since it
\* was seeded.
RestartedOnChangedStore ==
    /\ IsImport
    /\ Len(pre.activities) > 0
    /\ pre # seed_block(EmptyStore)
    /\ prev # NoPrev

\* C16: initialization of an empty store leaves exactly the 9 seed
\* activities, with pairwise distinct names, each with exactly its listed
\* participants as signups; no (activity, email) pair is stored twice and no
\* activity has more signups than its max_participants.
SeededStoreIsSeedData ==
    (IsImport /\ Len(pre.activities) = 0)
        => /\ Len(store.activities) = 9
           /\ Len(store.activities) = Len(INITIAL_ACTIVITIES)
           /\ \A i, j \in DOMAIN store.activities :
                  i # j => /\ store.activities[i].name
                                # store.activities[j].name
                           /\ store.activities[i].id # store.activities[j].id
           /\ \A i \in DOMAIN store.activities :
                  LET a == store.activities[i]
                      seed == INITIAL_ACTIVITIES[i]
                  IN  /\ a.name = seed.name
                      /\ a.description = seed.description
                      /\ a.schedule = seed.schedule
                      /\ a.max_participants = seed.max_participants
                      /\ RosterSeq(store, a.id) = seed.participants
                      /\ NumSignups(store, a.id) <= a.max_participants
           /\ Len(store.signups) = 18
           /\ \A i, j \in DOMAIN store.signups :
                  i # j => /\ store.signups[i].id # store.signups[j].id
                           /\ \/ store.signups[i].activity_id
                                    # store.signups[j].activity_id
                              \/ store.signups[i].email
                                    # store.signups[j].email

\* The process has started on an empty database and seeded it.
FirstRunSeeded ==
    /\ IsImport
    /\ pre = EmptyStore
    /\ Len(store.activities) > 0
    /\ Len(store.signups) > 0

\* The activity called name has no capacity (NULL) or capacity 0.
Unbounded(st, name) ==
    /\ Known(st, name)
    /\ TheActivity(st, name).max_participants \in {None, 0}

\* C17: an activity whose max_participants is unset or 0 is unbounded: a
\* signup to it by a student who is not enrolled never fails with "Activity
\* is full", whatever its signup count; the signup is stored.
UnsetOrZeroIsUnbounded ==
    (/\ IsSignup
     /\ Unbounded(pre, request.activity_name)
     /\ ~Enrolled(pre, request.activity_name, request.email))
        => /\ ~Failed(400, "Activity is full")
           /\ Succeeded
           /\ Enrolled(store, request.activity_name, request.email)

\* A student joined an activity of capacity 0 that already had signups.
JoinedZeroCapacityActivity ==
    /\ IsSignup /\ Succeeded
    /\ Known(pre, request.activity_name)
    /\ TheActivity(pre, request.activity_name).max_participants = 0
    /\ NumSignups(pre, TheActivity(pre, request.activity_name).id) > 0
    /\ Enrolled(store, request.activity_name, request.email)

\* The activity called name has exactly max_participants signups.
ExactlyFull(st, name) ==
    /\ Known(st, name)
    /\ NumSignups(st, TheActivity(st, name).id)
           = TheActivity(st, name).max_participants

\* The request before this one was a successful unregister from an activity
\* that was exactly full, and this one is a signup to it by a student who is
\* not enrolled.
SignupAfterPlaceFreed ==
    /\ prev # NoPrev
    /\ prev.request.op = "unregister"
    /\ prev.full
    /\ IsSignup
    /\ request.activity_name = prev.request.activity_name
    /\ ~Enrolled(pre, request.activity_name, request.email)

\* C18: unregister does not depend on capacity and frees a place: an
\* enrolled student leaves a full activity successfully, and after a
\* successful unregister from an activity that was exactly full the next
\* signup to it by a student who is not enrolled succeeds.
UnregisterFreesPlace ==
    /\ (/\ IsUnregister
        /\ Enrolled(pre, request.activity_name, request.email)
        /\ AtCapacity(pre, request.activity_name))
           => /\ Succeeded
              /\ ~Enrolled(store, request.activity_name, request.email)
              /\ NumSignups(store, TheActivity(pre, request.activity_name).id)
                     = NumSignups(pre,
                                  TheActivity(pre, request.activity_name).id)
                       - 1
    /\ SignupAfterPlaceFreed
           => /\ Succeeded
              /\ ExactlyFull(store, request.activity_name)

\* A newcomer took the place that an unregister from a full Math Club had
\* just freed.
FreedPlaceTaken ==
    /\ SignupAfterPlaceFreed
    /\ request.email # prev.request.email
    /\ response.status = 200

----------------------------------------------------------------------------
(* Properties of concurrent callers *)

\* C11: when signup requests of different callers interleave at their reads
\* and their insert-and-commit, the number of signups stored for an activity
\* with max_participants set never exceeds it.
ConcurrentCapacityRespected ==
    \A n \in ConcurrentNames :
        (Known(store, n) /\ TheActivity(store, n).max_participants # None)
            => NumSignups(store, TheActivity(store, n).id)
                   <= TheActivity(store, n).max_participants

\* Caller c writes to the store in this step: the insert-and-commit of its
\* signup or the delete-and-commit of its unregister.
WritesNow(c) ==
    /\ callers[c].pc \in {"insert", "delete"}
    /\ callers'[c].pc = "done"

FixedErrors ==
    {[status |-> 404, body |-> [detail |-> "Activity not found"]],
     [status |-> 400, body |-> [detail |-> "Student is already signed up"]],
     [status |-> 400, body |-> [detail |-> "Activity is full"]],
     [status |-> 400,
      body |-> [detail |-> "Student is not signed up for this activity"]]}

\* C13: every signup or unregister request that does not succeed ends in
\* exactly one of the four fixed error outcomes, whether it is served alone
\* or concurrently with others.
FailuresAreFixedErrors ==
    /\ ((IsSignup \/ IsUnregister) /\ ~Succeeded) => response \in FixedErrors
    /\ \A c \in Callers :
           (/\ callers[c].pc = "done"
            /\ callers[c].op \in {"signup", "unregister"}
            /\ callers[c].response.status # 200)
               => callers[c].response \in FixedErrors

\* C14: every list, signup and unregister request holds one open session
\* while it is in its handler and has released it once it has returned,
\* with success or with any error: then its session is closed, it has
\* committed at most one change and none of its changes is left pending.
SessionAlwaysReleased ==
    \A c \in Callers :
        /\ callers[c].pc = "idle" => callers[c].session = "none"
        /\ callers[c].pc \notin {"idle", "done"}
               => callers[c].session = "open"
        /\ callers[c].commits <= 1
        /\ callers[c].pc = "done"
               => /\ callers[c].session = "closed"
                  /\ callers[c].pending = <<>>
                  /\ callers[c].response.status # 200
                         => callers[c].commits = 0

\* One caller has returned from a failed commit and another from a
\* successful one; both sessions are closed.
ReturnedAfterFailedCommit ==
    \E c, d \in Callers :
        /\ callers[c].pc = "done" /\ callers[d].pc = "done"
        /\ callers[c].response.status = 500
        /\ callers[d].response.status = 200
        /\ callers[d].commits = 1
        /\ callers[c].session = "closed" /\ callers[d].session = "closed"

====
